---- MODULE Spec2Model ----
(***************************************************************************)
(* Library_Assistant: the hybrid book search (SQL full text + Chroma,      *)
(* reciprocal-rank fusion, ISBN de-duplication, cross-encoder reranking),  *)
(* the PDF reference retrieval system (batched indexing with retries,      *)
(* same-page context expansion, metadata fetches), the PDF reader agent's  *)
(* context assembly, the per-path retriever cache, load_pdf and the chat   *)
(* history of the HTTP endpoints.                                          *)
(*                                                                         *)
(* The module holds these state machines over groups of variables:         *)
(*   SearchSpec  book_search_tool, one query end to end                    *)
(*   RerankSpec  the reranker alone, over candidate lists longer than top_n*)
(*   IndexSpec   ReferenceRetrievalSystem.index_documents (worker pool)    *)
(*   ExpandSpec  ReferenceRetrievalSystem.search / _expand_same_page /     *)
(*               fetch_by_metadata and PDFReaderAgent.ask                  *)
(*   DocumentSpec PDFReaderAgent.ask on documents larger than its limits,  *)
(*               over the variables of ExpandSpec                          *)
(*   CacheSpec   get_or_create_retriever called from concurrent threads    *)
(*   LoadSpec    PDFReaderAgent.load_pdf, call after call                  *)
(*   ChatSpec    /library/chat and /pdf/chat, request after request        *)
(* Strings are sequences of one-character strings, so that strip() is      *)
(* computed and not assumed.                                               *)
(***************************************************************************)
EXTENDS Integers, Sequences, FiniteSets, TLC

VARIABLES
    \* ---- book search (book_search_tool.py) ----
    spc,          \* position inside book_search_tool
    lexical,      \* documents returned by SQLFullTextRetriever
    semantic,     \* documents returned by LoggingChromaRetriever
    fused,        \* EnsembleRetriever's RRF output (super().invoke)
    unique,       \* unique_docs returned by UniqueEnsembleRetriever.invoke
    scores,       \* [called, of]: was the cross encoder invoked, and its score per page_content
    ranked,       \* final_docs returned by the compression retriever
    hydrated,     \* per final doc: was a catalog record found for its isbn
    soutcome,     \* "none" | "found" | "notfound" | "raised"
    slog,         \* what failed on the way: subset of {"sql","chroma","scorer","details"}
    elog,         \* the lines UniqueEnsembleRetriever.invoke wrote to the log
    \* ---- indexing (reference_search.py, index_documents) ----
    ipc,          \* "idle" | "running" | "collected" | "returned" | "raised"
    batches,      \* sequence of batch sizes
    bstate,       \* per batch: record of the worker's progress
    collected,    \* batch indexes whose future the main thread has consumed
    failed_results, \* the list index_documents builds
    count,        \* self.collection.count()
    \* ---- retrieval (reference_search.py search/_expand_same_page, ask) ----
    store,        \* the collection: sequence of stored chunks
    downPages,    \* pages whose collection.get raises
    epc,          \* "idle" | "searched" | "again" | "fetched" | "asked"
    anchors,      \* initial_docs of the last search
    expanded,     \* result of _expand_same_page(anchors)
    expanded2,    \* result of _expand_same_page(expanded)
    fetched,      \* result of the last fetch_by_metadata
    context,      \* docs after ask's STEP 3
    intent,       \* intent of the last ask
    answer,       \* "none" | "noinfo" | "generated" | "error"
    \* ---- retriever cache (pdf_reader_tool.py) ----
    cache,        \* PDF_RETRIEVAL_CACHE: path -> build id, 0 when absent
    cpc,          \* per caller thread: position inside get_or_create_retriever
    cpath,        \* per caller thread: its pdf_path argument
    ccalls,       \* per caller thread: calls made so far
    builds,       \* per path: index builds completed
    rebuilt,      \* per path: an entry was stored over an existing one
    mine,         \* per caller thread: build id of its retriever_system, 0 when none
    partial,      \* <<path, build id>> of the builds that returned with a failed batch
    \* ---- PDFReaderAgent.load_pdf (pdf_reader_agent.py) ----
    lpc,          \* position inside load_pdf
    coll,         \* chunks in the Chroma collection: <<load number, batch>>
    handle,       \* retriever.collection: "live", or "stale" (its collection was deleted)
    loads,        \* load_pdf calls so far
    lbatches,     \* batches of the document of the last call
    lresult,      \* what the last call returned: "none" | "true" | "false"
    \* ---- chat endpoints (router.py) ----
    USER_CHAT_HISTORY,  \* history key -> list of (role, text) entries
    passed        \* chat_history argument of the last agent.ask call

searchVars == <<spc, lexical, semantic, fused, unique, scores, ranked, hydrated, soutcome, slog, elog>>
indexVars  == <<ipc, batches, bstate, collected, failed_results, count>>
expandVars == <<store, downPages, epc, anchors, expanded, expanded2, fetched, context, intent, answer>>
cacheVars  == <<cache, cpc, cpath, ccalls, builds, rebuilt, mine, partial>>
loadVars   == <<lpc, coll, handle, loads, lbatches, lresult>>
chatVars   == <<USER_CHAT_HISTORY, passed>>
vars == <<searchVars, indexVars, expandVars, cacheVars, loadVars, chatVars>>

(***************************************************************************)
(* Generic helpers                                                         *)
(***************************************************************************)
Range(s) == {s[i] : i \in DOMAIN s}

SeqsUpTo(S, n) == UNION {[1..k -> S] : k \in 0..n}

Min(a, b) == IF a < b THEN a ELSE b

\* Python's list.sort / sorted: stable, ascending on the key k of each item.
RECURSIVE InsertByKey(_, _)
InsertByKey(x, s) ==
    IF s = <<>> THEN <<x>>
    ELSE IF x.k < Head(s).k THEN <<x>> \o s
    ELSE <<Head(s)>> \o InsertByKey(x, Tail(s))

RECURSIVE SortByKey(_)
SortByKey(s) ==
    IF s = <<>> THEN <<>>
    ELSE InsertByKey(s[Len(s)], SortByKey(SubSeq(s, 1, Len(s) - 1)))

Take(s, n) == SubSeq(s, 1, Min(n, Len(s)))

\* str.strip() on a sequence of characters
RECURSIVE LStrip(_)
LStrip(s) == IF s = <<>> THEN s ELSE IF Head(s) = " " THEN LStrip(Tail(s)) ELSE s

RECURSIVE RStrip(_)
RStrip(s) ==
    IF s = <<>> THEN s
    ELSE IF s[Len(s)] = " " THEN RStrip(SubSeq(s, 1, Len(s) - 1)) ELSE s

Strip(s) == RStrip(LStrip(s))

(***************************************************************************)
(* Book search: book_search_tool.py                                        *)
(***************************************************************************)
MaxLexHits == 3     \* rows the SQL source returns at most (stands for top_k)
MaxSemHits == 2     \* documents the Chroma source returns at most (stands for k)
MaxScore == 1       \* the cross encoder's scores are drawn from 0..MaxScore
RrfC == 60          \* EnsembleRetriever's smoothing constant c
TopN == 5           \* LoggingCrossEncoderReranker(top_n=5)

Missing == <<"<absent>">>     \* metadata without an "isbn" entry

\* ISBN column values of the catalog rows the full text query can match,
\* already passed through str(row['ISBN']).strip() (line 67).
LexIsbns == {<<"A">>, <<"B">>, <<"C">>}
\* page_content the SQL retriever builds for a row (TENSACH \n NOIDUNG).
LexContent(isbn) == IF isbn = <<"A">> THEN 1 ELSE IF isbn = <<"B">> THEN 2 ELSE 3
\* "isbn" metadata as stored in the QLTV collection: absent, the ISBN of a
\* row the full text query can match (as it is, or padded), or another book's.
RawIsbns == {Missing, <<"A">>, <<"A", " ">>, <<"B">>, <<"D">>}
\* page_content of a Chroma document: equal to a SQL row's text, or not.
SemContents == {1, 4}

LexDoc(isbn) == [isbn |-> isbn, content |-> LexContent(isbn), src |-> "sql"]

\* SQLFullTextRetriever._get_relevant_documents on success: rows are distinct
\* catalog records, at most top_k of them.
LexicalResults ==
    {[i \in DOMAIN s |-> LexDoc(s[i])] :
        s \in {t \in SeqsUpTo(LexIsbns, MaxLexHits) :
                 \A i, j \in DOMAIN t : i # j => t[i] # t[j]}}

\* doc.metadata.get("isbn", "") followed by str()
MetaIsbn(raw) == IF raw = Missing THEN <<>> ELSE raw

\* LoggingChromaRetriever._get_relevant_documents on success (lines 89-96):
\* the isbn is converted to a string, and not stripped.
ChromaDoc(raw, c) == [isbn |-> MetaIsbn(raw), content |-> c, src |-> "chroma"]

SemanticResults ==
    {[i \in DOMAIN s |-> ChromaDoc(s[i][1], s[i][2])] :
        s \in SeqsUpTo(RawIsbns \X SemContents, MaxSemHits)}

\* ---- EnsembleRetriever.weighted_reciprocal_rank, keyed by page_content ----
MaxRank == IF MaxLexHits > MaxSemHits THEN MaxLexHits ELSE MaxSemHits

RECURSIVE RrfScaleUpTo(_)
RrfScaleUpTo(r) == IF r = 0 THEN 1 ELSE (RrfC + r) * RrfScaleUpTo(r - 1)

\* Common denominator of every 1 / (c + rank): scores are compared exactly.
RrfScale == RrfScaleUpTo(MaxRank)

\* weights = [0.5, 0.5], in halves
Weights == <<1, 1>>

RECURSIVE ListScore(_, _, _)
ListScore(key, docs, rank) ==
    IF rank > Len(docs) THEN 0
    ELSE (IF docs[rank].content = key THEN RrfScale \div (RrfC + rank) ELSE 0)
         + ListScore(key, docs, rank + 1)

RrfScore(key, lex, sem) ==
    Weights[1] * ListScore(key, lex, 1) + Weights[2] * ListScore(key, sem, 1)

RECURSIVE UniqueByKey(_, _)
UniqueByKey(docs, seen) ==
    IF docs = <<>> THEN <<>>
    ELSE IF Head(docs).content \in seen THEN UniqueByKey(Tail(docs), seen)
    ELSE <<Head(docs)>> \o UniqueByKey(Tail(docs), seen \cup {Head(docs).content})

WeightedReciprocalRank(lex, sem) ==
    LET all  == UniqueByKey(lex \o sem, {})
        keyd == [i \in DOMAIN all |->
                   [k |-> 0 - RrfScore(all[i].content, lex, sem), v |-> all[i]]]
        srt  == SortByKey(keyd)
    IN  [i \in DOMAIN srt |-> srt[i].v]

\* ---- UniqueEnsembleRetriever.invoke, lines 113-125 ----
\* Variant: the key is the isbn as carried, not stripped.
RawKey(doc) == doc.isbn

DedupKey(doc) == Strip(doc.isbn)

\* Variant: the last document of each ISBN is kept, not the first.
RECURSIVE HardFilterLast(_, _)
HardFilterLast(docs, seen) ==
    IF docs = <<>> THEN <<>>
    ELSE LET isbn  == Strip(Head(docs).isbn)
             later == \E j \in DOMAIN Tail(docs) : Strip(Tail(docs)[j].isbn) = isbn
         IN  IF isbn # <<>> /\ isbn \notin seen /\ ~later
             THEN <<Head(docs)>> \o HardFilterLast(Tail(docs), seen \cup {isbn})
             ELSE HardFilterLast(Tail(docs), seen)

RECURSIVE HardFilter(_, _)
HardFilter(docs, seen) ==
    IF docs = <<>> THEN <<>>
    ELSE LET isbn == DedupKey(Head(docs))
         IN  IF isbn # <<>> /\ isbn \notin seen
             THEN <<Head(docs)>> \o HardFilter(Tail(docs), seen \cup {isbn})
             ELSE HardFilter(Tail(docs), seen)

\* Variant: ascending sort, then reversed; equal scores come out in reverse
\* input order.
RECURSIVE Reverse(_)
Reverse(s) == IF s = <<>> THEN <<>> ELSE Reverse(Tail(s)) \o <<Head(s)>>

CompressDocumentsReversed(docs, sc) ==
    LET keyd == [i \in DOMAIN docs |-> [k |-> sc[docs[i].content], v |-> docs[i]]]
        srt  == Reverse(SortByKey(keyd))
    IN  Take([i \in DOMAIN srt |-> srt[i].v], TopN)

\* ---- CrossEncoderReranker.compress_documents, as called on line 134 ----
\* sorted(zip(documents, scores), key=score, reverse=True)[:top_n]; Python's
\* reverse sort keeps equal keys in their original order.
CompressDocuments(docs, sc) ==
    LET keyd == [i \in DOMAIN docs |-> [k |-> 0 - sc[docs[i].content], v |-> docs[i]]]
        srt  == SortByKey(keyd)
    IN  Take([i \in DOMAIN srt |-> srt[i].v], TopN)

ContentsOf(docs) == {docs[i].content : i \in DOMAIN docs}

ScoreFunctions(docs) == [ContentsOf(docs) -> 0..MaxScore]

\* ---- _fetch_full_book_details, lines 194-211 ----
\* ISBN column values of DAUSACH as the driver returns them (fixed width
\* columns come back padded).
CatalogIsbns == {<<"A", " ">>, <<"B">>, <<"C">>}

\* WHERE ISBN IN (...): SQL Server's = ignores trailing blanks only.
SqlEquals(a, b) == RStrip(a) = RStrip(b)

\* The keys of the returned dict: str(row['ISBN']).strip() of every matched row.
FetchFullBookDetails(isbns, dbOk) ==
    IF isbns = <<>> \/ ~dbOk THEN {}
    ELSE {Strip(r) : r \in {c \in CatalogIsbns :
                              \E i \in DOMAIN isbns : SqlEquals(c, isbns[i])}}

NotCalled == [called |-> FALSE, of |-> <<>>]

SearchIdle ==
    /\ spc = "off" /\ lexical = <<>> /\ semantic = <<>> /\ fused = <<>>
    /\ unique = <<>> /\ scores = NotCalled /\ ranked = <<>> /\ hydrated = <<>>
    /\ soutcome = "none" /\ slog = {} /\ elog = <<>>

SearchInit ==
    /\ spc = "init" /\ lexical = <<>> /\ semantic = <<>> /\ fused = <<>>
    /\ unique = <<>> /\ scores = NotCalled /\ ranked = <<>> /\ hydrated = <<>>
    /\ soutcome = "none" /\ slog = {} /\ elog = <<>>

\* book_search_tool lines 250-264: the query is normalised; an empty one is
\* answered with an error message before any retrieval.
ParseQuery ==
    /\ spc = "init"
    /\ \E usable \in BOOLEAN :
         IF usable THEN spc' = "start" /\ soutcome' = soutcome
         ELSE spc' = "done" /\ soutcome' = "badquery"
    /\ UNCHANGED <<lexical, semantic, fused, unique, scores, ranked, hydrated, slog, elog>>
    /\ UNCHANGED <<indexVars, expandVars, cacheVars, loadVars, chatVars>>

\* Variant: the query is run outside the try, its exception leaves the
\* retriever.
SqlQueryUnguarded ==
    /\ spc = "start"
    /\ \/ \E rows \in LexicalResults :
            /\ lexical' = rows /\ slog' = slog
            /\ spc' = "lexical" /\ soutcome' = soutcome
       \/ /\ lexical' = <<>> /\ slog' = slog \cup {"sql"}
          /\ spc' = "done" /\ soutcome' = "raised"
    /\ UNCHANGED <<semantic, fused, unique, scores, ranked, hydrated, elog>>
    /\ UNCHANGED <<indexVars, expandVars, cacheVars, loadVars, chatVars>>

\* SQLFullTextRetriever._get_relevant_documents: any exception is logged and
\* answered with []; get_db_connection answering None makes the with
\* statement raise inside the same try.
SqlQuery ==
    /\ spc = "start"
    /\ \/ \E rows \in LexicalResults : lexical' = rows /\ slog' = slog
       \/ lexical' = <<>> /\ slog' = slog \cup {"sql"}
    /\ spc' = "lexical"
    /\ UNCHANGED <<semantic, fused, unique, scores, ranked, hydrated, soutcome, elog>>
    /\ UNCHANGED <<indexVars, expandVars, cacheVars, loadVars, chatVars>>

\* LoggingChromaRetriever._get_relevant_documents: similarity_search is not
\* guarded, an exception leaves retriever.invoke and book_search_tool.
ChromaQuery ==
    /\ spc = "lexical"
    /\ \/ \E docs \in SemanticResults :
            /\ semantic' = docs
            /\ spc' = "semantic" /\ soutcome' = soutcome /\ slog' = slog
       \/ /\ semantic' = semantic
          /\ spc' = "done" /\ soutcome' = "raised" /\ slog' = slog \cup {"chroma"}
    /\ UNCHANGED <<lexical, fused, unique, scores, ranked, hydrated, elog>>
    /\ UNCHANGED <<indexVars, expandVars, cacheVars, loadVars, chatVars>>

\* The two logger.debug calls of UniqueEnsembleRetriever.invoke (lines 110 and
\* 124): the number of merged candidates, the number of documents sent on.
\* No other line of invoke writes to the log.
EnsembleLog(docs, unique_docs) ==
    <<[msg |-> "Ensemble Raw", n |-> Len(docs)],
      [msg |-> "Ensemble Final", n |-> Len(unique_docs)]>>

\* UniqueEnsembleRetriever.invoke: RRF of the two lists, then the hard filter.
Fuse ==
    /\ spc = "semantic"
    /\ fused' = WeightedReciprocalRank(lexical, semantic)
    /\ unique' = HardFilter(fused', {})
    /\ elog' = EnsembleLog(fused', unique')
    /\ spc' = "unique"
    /\ UNCHANGED <<lexical, semantic, scores, ranked, hydrated, soutcome, slog>>
    /\ UNCHANGED <<indexVars, expandVars, cacheVars, loadVars, chatVars>>

\* LoggingCrossEncoderReranker.compress_documents: nothing to score for an
\* empty list; otherwise the model scores every candidate, and an exception of
\* the model is not caught anywhere up to book_search_tool's caller.
Rerank ==
    /\ spc = "unique"
    /\ IF unique = <<>>
       THEN /\ ranked' = <<>> /\ scores' = scores
            /\ spc' = "ranked" /\ soutcome' = soutcome /\ slog' = slog
       ELSE \/ \E sc \in ScoreFunctions(unique) :
                 /\ scores' = [called |-> TRUE, of |-> sc]
                 /\ ranked' = CompressDocuments(unique, sc)
                 /\ spc' = "ranked" /\ soutcome' = soutcome /\ slog' = slog
            \/ /\ scores' = [called |-> TRUE, of |-> <<>>]
               /\ ranked' = ranked
               /\ spc' = "done" /\ soutcome' = "raised"
               /\ slog' = slog \cup {"scorer"}
    /\ UNCHANGED <<lexical, semantic, fused, unique, hydrated, elog>>
    /\ UNCHANGED <<indexVars, expandVars, cacheVars, loadVars, chatVars>>

\* book_search_tool lines 269-290: the details map is looked up with the
\* isbn each final document carries.
Hydrate ==
    /\ spc = "ranked"
    /\ \E dbOk \in BOOLEAN :
         LET top_isbns == [i \in DOMAIN ranked |-> ranked[i].isbn]
             details   == FetchFullBookDetails(top_isbns, dbOk)
         IN  /\ hydrated' = [i \in DOMAIN ranked |-> ranked[i].isbn \in details]
             /\ slog' = IF dbOk \/ ranked = <<>> THEN slog ELSE slog \cup {"details"}
    /\ soutcome' = IF ranked = <<>> THEN "notfound" ELSE "found"
    /\ spc' = "done"
    /\ UNCHANGED <<lexical, semantic, fused, unique, scores, ranked, elog>>
    /\ UNCHANGED <<indexVars, expandVars, cacheVars, loadVars, chatVars>>

\* ---- the reranker over candidate lists longer than top_n ----
MaxCands == 6
Letters == <<"A", "B", "C", "D", "E", "F", "G", "H">>

\* A fused, de-duplicated list: distinct page_content (RRF's key) and
\* distinct ISBN (the hard filter).
Candidates(n) == [i \in 1..n |-> [isbn |-> <<Letters[i]>>, content |-> i, src |-> "sql"]]

RerankInit ==
    /\ spc = "unique"
    /\ unique \in {Candidates(n) : n \in 0..MaxCands}
    /\ fused = unique
    /\ lexical = unique /\ semantic = <<>>
    /\ scores = NotCalled /\ ranked = <<>> /\ hydrated = <<>>
    /\ soutcome = "none" /\ slog = {}
    /\ elog = EnsembleLog(fused, unique)

(***************************************************************************)
(* Indexing: ReferenceRetrievalSystem.index_documents                      *)
(***************************************************************************)
MaxDocs == 3          \* chunks handed to index_documents at most
MaxBatchSize == 2     \* batch_size is drawn from 1..MaxBatchSize
MaxRetries == 3       \* max_retries
BackoffTime == 15     \* backoff_time
MaxWorkers == 2       \* ThreadPoolExecutor(max_workers=2)
SummaryMax == 3       \* failed_results[:3]

RECURSIVE Pow2(_)
Pow2(n) == IF n = 0 THEN 1 ELSE 2 * Pow2(n - 1)

\* lines 76-83: documents[i : i + batch_size], as batch sizes
SplitBatches(total, bs) ==
    [i \in 1..((total + bs - 1) \div bs) |-> Min(bs, total - (i - 1) * bs)]

\* What collection.upsert can do, by what the code looks at: success, an
\* exception whose lowered text holds "429", "quota" or "limit", and any other
\* exception, whose text may or may not hold the letters "OK".
UpsertOutcomes == {"ok", "rate", "hard", "hardOK"}

NoResult == [kind |-> "none", hasOK |-> FALSE]
Queued == [st |-> "queued", retry |-> 0, attempts |-> 0, waits |-> <<>>, result |-> NoResult]

\* Variant: gives up one rate-limited attempt early (>= for >).
AfterUpsertEarly(b, outcome) ==
    LET tried == [b EXCEPT !.attempts = @ + 1]
    IN  CASE outcome = "ok" ->
               [tried EXCEPT !.st = "done", !.result = [kind |-> "OK", hasOK |-> TRUE]]
          [] outcome = "rate" ->
               IF b.retry + 1 >= MaxRetries
               THEN [tried EXCEPT !.retry = @ + 1, !.st = "done",
                                  !.result = [kind |-> "FAILED", hasOK |-> FALSE]]
               ELSE [tried EXCEPT !.retry = @ + 1,
                                  !.waits = Append(@, BackoffTime * Pow2(b.retry))]
          [] OTHER ->
               [tried EXCEPT !.st = "done",
                             !.result = [kind |-> "ERROR", hasOK |-> (outcome = "hardOK")]]

\* Variant: a batch that ran out of retries is reported like a success.
AfterUpsertSwallow(b, outcome) ==
    LET tried == [b EXCEPT !.attempts = @ + 1]
    IN  CASE outcome = "ok" ->
               [tried EXCEPT !.st = "done", !.result = [kind |-> "OK", hasOK |-> TRUE]]
          [] outcome = "rate" ->
               IF b.retry + 1 > MaxRetries
               THEN [tried EXCEPT !.retry = @ + 1, !.st = "done",
                                  !.result = [kind |-> "OK", hasOK |-> TRUE]]
               ELSE [tried EXCEPT !.retry = @ + 1,
                                  !.waits = Append(@, BackoffTime * Pow2(b.retry))]
          [] OTHER ->
               [tried EXCEPT !.st = "done",
                             !.result = [kind |-> "ERROR", hasOK |-> (outcome = "hardOK")]]

\* One iteration of process_batch's while loop (lines 95-114) on the worker's
\* local state, for one outcome of the upsert.
AfterUpsert(b, outcome) ==
    LET tried == [b EXCEPT !.attempts = @ + 1]
    IN  CASE outcome = "ok" ->
               [tried EXCEPT !.st = "done", !.result = [kind |-> "OK", hasOK |-> TRUE]]
          [] outcome = "rate" ->
               IF b.retry + 1 > MaxRetries
               THEN [tried EXCEPT !.retry = @ + 1, !.st = "done",
                                  !.result = [kind |-> "FAILED", hasOK |-> FALSE]]
               ELSE [tried EXCEPT !.retry = @ + 1,
                                  !.waits = Append(@, BackoffTime * Pow2(b.retry))]
          [] OTHER ->
               [tried EXCEPT !.st = "done",
                             !.result = [kind |-> "ERROR", hasOK |-> (outcome = "hardOK")]]

\* line 125: "OK" in result, on the string process_batch returned
ContainsOK(result) == result.kind = "OK" \/ (result.kind = "ERROR" /\ result.hasOK)

IndexIdle ==
    /\ ipc = "off" /\ batches = <<>> /\ bstate = <<>> /\ collected = {}
    /\ failed_results = <<>> /\ count = 0

IndexInit ==
    /\ ipc = "idle" /\ batches = <<>> /\ bstate = <<>> /\ collected = {}
    /\ failed_results = <<>> /\ count = 0

\* lines 76-83 and 119-120: split, submit every batch to the pool
StartIndexing ==
    /\ ipc = "idle"
    /\ \E total \in 0..MaxDocs, bs \in 1..MaxBatchSize :
         /\ batches' = SplitBatches(total, bs)
         /\ bstate' = [i \in DOMAIN batches' |-> Queued]
    /\ ipc' = "running"
    /\ UNCHANGED <<collected, failed_results, count>>
    /\ UNCHANGED <<searchVars, expandVars, cacheVars, loadVars, chatVars>>

Running == {i \in DOMAIN bstate : bstate[i].st = "running"}

\* lines 122-132: what the main thread does with a finished future. A future
\* is consumed as it completes (as_completed), so failed_results is in
\* completion order. The strings process_batch returns carry the batch number
\* (current_batch); str(e) of an exception raised in the worker does not:
\* batch 0 stands for "no number in the text".
Collected(failed, i, result) ==
    IF result.kind # "CRASH" /\ ContainsOK(result) THEN failed
    ELSE Append(failed, [batch |-> IF result.kind = "CRASH" THEN 0 ELSE i,
                         kind |-> result.kind])

\* line 135: the part of failed_results that goes into the exception's text
ErrorSummary(failed) == Take(failed, SummaryMax)

\* A pool thread takes the next submitted batch (FIFO work queue) and runs
\* lines 86-93; building ids/docs/metadatas may raise for a malformed item,
\* which future.result() re-raises in the main thread (lines 130-132).
WorkerTakes(i) ==
    /\ ipc = "running"
    /\ bstate[i].st = "queued"
    /\ \A j \in 1..(i - 1) : bstate[j].st # "queued"
    /\ Cardinality(Running) < MaxWorkers
    /\ \/ /\ bstate' = [bstate EXCEPT ![i].st = "running"]
          /\ UNCHANGED <<collected, failed_results>>
       \/ LET crash == [kind |-> "CRASH", hasOK |-> FALSE]
          IN  /\ bstate' = [bstate EXCEPT ![i].st = "done", ![i].result = crash]
              /\ collected' = collected \cup {i}
              /\ failed_results' = Collected(failed_results, i, crash)
    /\ UNCHANGED <<ipc, batches, count>>
    /\ UNCHANGED <<searchVars, expandVars, cacheVars, loadVars, chatVars>>

\* One upsert attempt of batch i and what process_batch does with its outcome
\* (the sleep before the next attempt included); when process_batch returns,
\* the main thread consumes the future.
Attempt(i) ==
    /\ ipc = "running"
    /\ bstate[i].st = "running"
    /\ \E outcome \in UpsertOutcomes :
         LET after == AfterUpsert(bstate[i], outcome)
         IN  /\ bstate' = [bstate EXCEPT ![i] = after]
             /\ count' = IF outcome = "ok" THEN count + batches[i] ELSE count
             /\ IF after.st = "done"
                THEN /\ collected' = collected \cup {i}
                     /\ failed_results' = Collected(failed_results, i, after.result)
                ELSE UNCHANGED <<collected, failed_results>>
    /\ UNCHANGED <<ipc, batches>>
    /\ UNCHANGED <<searchVars, expandVars, cacheVars, loadVars, chatVars>>

\* Variant: index_documents raises as soon as one batch has failed, without
\* waiting for the batches not yet finished.
FinishIndexingFailFast ==
    /\ ipc = "running"
    /\ collected = DOMAIN bstate \/ failed_results # <<>>
    /\ ipc' = IF failed_results # <<>> THEN "raised" ELSE "returned"
    /\ UNCHANGED <<batches, bstate, collected, failed_results, count>>
    /\ UNCHANGED <<searchVars, expandVars, cacheVars, loadVars, chatVars>>

\* lines 134-138
FinishIndexing ==
    /\ ipc = "running"
    /\ collected = DOMAIN bstate
    /\ ipc' = IF failed_results # <<>> THEN "raised" ELSE "returned"
    /\ UNCHANGED <<batches, bstate, collected, failed_results, count>>
    /\ UNCHANGED <<searchVars, expandVars, cacheVars, loadVars, chatVars>>

IndexNext ==
    \/ StartIndexing
    \/ \E i \in DOMAIN bstate : WorkerTakes(i)
    \/ \E i \in DOMAIN bstate : Attempt(i)
    \/ FinishIndexing

(***************************************************************************)
(* Retrieval over the PDF collection: reference_search.py                  *)
(***************************************************************************)
MaxChunks == 2        \* chunks in the collection at most
MaxPage == 2          \* pages of the loaded document
BaseTopK == 5         \* ask: retriever.search(..., top_k=5, expand_same_page=True)
HeadingTopK == 3      \* ask, summary: search(..., top_k=3, filter heading)
SectionTopK == 1      \* ask, section: search(target, top_k=1, filter heading)
IntroLimit == 20      \* fetch_by_metadata's default limit, used by get_intro_chunks
SectionLimit == 30    \* ask, section: fetch_by_metadata(..., limit=30)

Pages == 1..MaxPage
NoPage == 0 - 1       \* metadata without a "page" entry
NoHeading == <<0, 0>> \* parent_heading "N/A": no heading seen yet

\* page_content is a pair <<first 50 characters, rest>>: the sort key of
\* _expand_same_page reads the first component only.
Prefixes == {1, 2}
HeadingText == <<1, 0>>
TextA == <<1, 1>>     \* shares its first 50 characters with the heading
TextB == <<2, 0>>

\* Chunks as PDFIngestionPipeline.process_pdf builds them: every chunk has a
\* page; a heading chunk is its own parent_heading; bboxes is a JSON string,
\* here its rank in string order.
ChunkPool ==
    {[content |-> HeadingText, page |-> p, type |-> "heading",
      parent |-> HeadingText, bboxes |-> 1] : p \in Pages}
    \cup
    {[content |-> c, page |-> p, type |-> "text", parent |-> h,
      bboxes |-> IF c = TextA THEN 2 ELSE 1] :
        c \in {TextA, TextB}, p \in Pages, h \in {HeadingText, NoHeading}}

Stores == SeqsUpTo(ChunkPool, MaxChunks)

\* doc.metadata.get("page", default)
PageOr(chunk, default) == IF chunk.page = NoPage THEN default ELSE chunk.page

\* collection.get(where=..., limit=...): the matching chunks in stored order
RECURSIVE SelectSeq2(_, _, _)
SelectSeq2(s, i, keep) ==
    IF i > Len(s) THEN <<>>
    ELSE (IF i \in keep THEN <<s[i]>> ELSE <<>>) \o SelectSeq2(s, i + 1, keep)

Matching(st, filter) ==
    {i \in DOMAIN st :
        CASE filter.kind = "page"    -> st[i].page = filter.page
          [] filter.kind = "pages"   -> st[i].page \in filter.pages
          [] filter.kind = "parent"  -> st[i].parent = filter.heading
          [] filter.kind = "type"    -> st[i].type = filter.type
          [] OTHER                   -> TRUE}

CollectionGet(st, filter) == SelectSeq2(st, 1, Matching(st, filter))

\* Variant: seen_contents is never filled, every fetched chunk is kept.
KeepAll(docs, seen) == docs

\* "if content not in seen_contents": first occurrence of each content
RECURSIVE DedupContent(_, _)
DedupContent(docs, seen) ==
    IF docs = <<>> THEN <<>>
    ELSE IF Head(docs).content \in seen THEN DedupContent(Tail(docs), seen)
    ELSE <<Head(docs)>> \o DedupContent(Tail(docs), seen \cup {Head(docs).content})

\* Variant: the page after each anchor's page is fetched as well.
PagesToFetchNext(chunks) ==
    {PageOr(chunks[i], 1) : i \in DOMAIN chunks}
    \cup ({PageOr(chunks[i], 1) + 1 : i \in DOMAIN chunks} \cap Pages)

\* lines 205-208
PagesToFetch(chunks) == {PageOr(chunks[i], 1) : i \in DOMAIN chunks}

\* lines 214-234: the pages in ascending order, a failing get is skipped
RECURSIVE FetchPages(_, _, _, _)
FetchPages(st, pages, down, p) ==
    IF p > MaxPage THEN <<>>
    ELSE (IF p \in pages /\ p \notin down
          THEN CollectionGet(st, [kind |-> "page", page |-> p]) ELSE <<>>)
         \o FetchPages(st, pages, down, p + 1)

PrefixBase == Cardinality(Prefixes) + 1

\* line 237: sort(key=(page or 0, page_content[:50]))
SortPagePrefix(docs) ==
    LET keyd == [i \in DOMAIN docs |->
                   [k |-> PageOr(docs[i], 0) * PrefixBase + docs[i].content[1],
                    v |-> docs[i]]]
        srt  == SortByKey(keyd)
    IN  [i \in DOMAIN srt |-> srt[i].v]

\* Variant: seen_contents starts with the anchors' contents.
ExpandSamePageSeeded(chunks, st, down) ==
    SortPagePrefix(DedupContent(FetchPages(st, PagesToFetch(chunks), down, 1),
                                {chunks[i].content : i \in DOMAIN chunks}))

\* ReferenceRetrievalSystem._expand_same_page
ExpandSamePage(chunks, st, down) ==
    SortPagePrefix(DedupContent(FetchPages(st, PagesToFetch(chunks), down, 1), {}))

\* line 292: sort(key=(page or 0, bboxes))
BboxBase == Cardinality({c.bboxes : c \in ChunkPool}) + 1
SortPageBbox(docs) ==
    LET keyd == [i \in DOMAIN docs |->
                   [k |-> PageOr(docs[i], 0) * BboxBase + docs[i].bboxes,
                    v |-> docs[i]]]
        srt  == SortByKey(keyd)
    IN  [i \in DOMAIN srt |-> srt[i].v]

\* ReferenceRetrievalSystem.fetch_by_metadata; getOk: collection.get answered
FetchByMetadata(st, filter, limit, getOk) ==
    IF ~getOk THEN <<>>
    ELSE SortPageBbox(DedupContent(Take(CollectionGet(st, filter), limit), {}))

\* ReferenceRetrievalSystem.get_max_page
GetMaxPage(st, getOk) ==
    IF ~getOk \/ st = <<>> THEN 1
    ELSE CHOOSE m \in {PageOr(st[i], 0) : i \in DOMAIN st} :
            \A i \in DOMAIN st : PageOr(st[i], 0) <= m

\* ReferenceRetrievalSystem.get_intro_chunks
GetIntroChunks(st, pages, getOk) ==
    FetchByMetadata(st,
        IF Len(pages) > 1 THEN [kind |-> "pages", pages |-> Range(pages)]
        ELSE [kind |-> "page", page |-> pages[1]],
        IntroLimit, getOk)

\* collection.query(n_results=top_k, where=filter): the top_k most similar
\* matching chunks; which ones is the embedding's choice. hits is the set of
\* their positions in the store.
QueryHits(st, filter, top_k) ==
    LET m == Matching(st, filter)
    IN  {h \in SUBSET m : Cardinality(h) = Min(top_k, Cardinality(m))}

\* ReferenceRetrievalSystem.search with expand_same_page=True, for one answer
\* of the collection: queryOk = the query did not raise, hits = its result.
InitialDocs(st, hits, queryOk) == IF queryOk THEN SelectSeq2(st, 1, hits) ELSE <<>>

Search(st, hits, queryOk, down) ==
    IF InitialDocs(st, hits, queryOk) = <<>> THEN <<>>
    ELSE ExpandSamePage(InitialDocs(st, hits, queryOk), st, down)

(***************************************************************************)
(* PDFReaderAgent.ask, lines 106-156, for one state of the collection      *)
(***************************************************************************)
Intents == {"general", "summary", "section"}
AnyFilter == [kind |-> "any"]
HeadingFilter == [kind |-> "type", type |-> "heading"]

\* lines 118-125
SummaryIntro(st, getOk) ==
    LET max_p == GetMaxPage(st, getOk)
        target_pages == IF max_p > 1 THEN <<1, max_p>> ELSE <<1>>
    IN  GetIntroChunks(st, target_pages, getOk)

\* lines 131-139; cands is the (expanded) heading search result
SectionContent(st, cands, getOk) ==
    IF cands = <<>> THEN <<>>
    ELSE FetchByMetadata(st, [kind |-> "parent", heading |-> cands[1].content],
                         SectionLimit, getOk)

SectionExtra(st, cands, getOk) ==
    IF cands = <<>> THEN <<>> ELSE <<cands[1]>> \o SectionContent(st, cands, getOk)

\* Variant: the intent's additions are put before the base documents.
AskDocsExtraFirst(it, st, base, hdocs, getOk) ==
    CASE it = "summary" -> SummaryIntro(st, getOk) \o hdocs \o base
      [] it = "section" -> SectionExtra(st, hdocs, getOk) \o base
      [] OTHER          -> base

\* docs before STEP 3; base is base_docs, hdocs the heading search result
AskDocs(it, st, base, hdocs, getOk) ==
    CASE it = "summary" -> base \o SummaryIntro(st, getOk) \o hdocs
      [] it = "section" -> base \o SectionExtra(st, hdocs, getOk)
      [] OTHER          -> base

\* STEP 3, lines 142-149
UniqueDocs(docs) == DedupContent(docs, {})

ExpandIdle ==
    /\ store = <<>> /\ downPages = {} /\ epc = "off" /\ anchors = <<>>
    /\ expanded = <<>> /\ expanded2 = <<>> /\ fetched = <<>> /\ context = <<>>
    /\ intent = "none" /\ answer = "none"

ExpandInit ==
    /\ store \in Stores
    /\ downPages = {} /\ epc = "idle" /\ anchors = <<>>
    /\ expanded = <<>> /\ expanded2 = <<>> /\ fetched = <<>> /\ context = <<>>
    /\ intent = "none" /\ answer = "none"

\* retriever.search(query, top_k, expand_same_page=True, filter)
DoSearch ==
    /\ epc = "idle"
    /\ \E top_k \in {SectionTopK, HeadingTopK, BaseTopK},
          filter \in {AnyFilter, HeadingFilter},
          queryOk \in BOOLEAN, down \in SUBSET Pages :
         \E hits \in QueryHits(store, filter, top_k) :
            /\ anchors' = InitialDocs(store, hits, queryOk)
            /\ expanded' = Search(store, hits, queryOk, down)
            /\ downPages' = down
    /\ epc' = "searched"
    /\ UNCHANGED <<store, expanded2, fetched, context, intent, answer>>
    /\ UNCHANGED <<searchVars, indexVars, cacheVars, loadVars, chatVars>>

\* _expand_same_page applied to its own output, the collection and its
\* availability unchanged
ExpandAgain ==
    /\ epc = "searched"
    /\ expanded2' = ExpandSamePage(expanded, store, downPages)
    /\ epc' = "again"
    /\ UNCHANGED <<store, downPages, anchors, expanded, fetched, context, intent, answer>>
    /\ UNCHANGED <<searchVars, indexVars, cacheVars, loadVars, chatVars>>

FetchFilters ==
    {[kind |-> "page", page |-> p] : p \in Pages}
    \cup {[kind |-> "pages", pages |-> Pages]}
    \cup {[kind |-> "parent", heading |-> h] : h \in {HeadingText, NoHeading}}

\* retriever.fetch_by_metadata(where_filter, limit)
DoFetch ==
    /\ epc = "idle"
    /\ \E filter \in FetchFilters, limit \in {1, IntroLimit, SectionLimit},
          getOk \in BOOLEAN :
         fetched' = FetchByMetadata(store, filter, limit, getOk)
    /\ epc' = "fetched"
    /\ UNCHANGED <<store, downPages, anchors, expanded, expanded2, context, intent, answer>>
    /\ UNCHANGED <<searchVars, indexVars, cacheVars, loadVars, chatVars>>

\* top_k of the heading search of ask, by intent (lines 125, 131)
HeadingK(it) == IF it = "section" THEN SectionTopK ELSE HeadingTopK

\* PDFReaderAgent.ask, lines 106-156, for intent it, the answers bhits and
\* hhits of the base and of the heading query, and one state of health of
\* the collection: queryOk for collection.query, getOk for the unfiltered and
\* metadata gets, down for the per-page gets. llmOk: planner and answer
\* generator did not raise.
Ask(it, bhits, hhits, queryOk, getOk, llmOk, down) ==
    LET base  == Search(store, bhits, queryOk, down)
        hdocs == Search(store, hhits, queryOk, down)
        docs  == UniqueDocs(AskDocs(it, store, base, hdocs, getOk))
    IN  /\ intent' = it
        /\ downPages' = down
        /\ anchors' = InitialDocs(store, bhits, queryOk)
        /\ expanded' = base
        /\ fetched' = CASE it = "summary" -> SummaryIntro(store, getOk)
                        [] it = "section" -> SectionContent(store, hdocs, getOk)
                        [] OTHER -> <<>>
        /\ context' = docs
        /\ answer' = IF ~llmOk THEN "error"
                     ELSE IF docs = <<>> THEN "noinfo" ELSE "generated"

\* PDFReaderAgent.ask on a small collection, every answer and every failure
\* of the collection
DoAsk ==
    /\ epc = "idle"
    /\ \E it \in Intents, queryOk \in BOOLEAN, getOk \in BOOLEAN,
          llmOk \in BOOLEAN, down \in SUBSET Pages :
         \E bhits \in QueryHits(store, AnyFilter, BaseTopK),
            hhits \in QueryHits(store, HeadingFilter, HeadingK(it)) :
            Ask(it, bhits, hhits, queryOk, getOk, llmOk, down)
    /\ epc' = "asked"
    /\ UNCHANGED <<store, expanded2>>
    /\ UNCHANGED <<searchVars, indexVars, cacheVars, loadVars, chatVars>>

ExpandNext == DoSearch \/ ExpandAgain \/ DoFetch \/ DoAsk

(***************************************************************************)
(* PDFReaderAgent.ask on documents larger than the limits of ask           *)
(***************************************************************************)
MaxTail == 2          \* chunks of the document's last page at most

\* the most chunks the limits of ask add up to: top_k=5, top_k=1, limit=30
ContextBudget == BaseTopK + SectionTopK + SectionLimit

\* the k-th table of page 1, before any heading; process_pdf makes one
\* chunk of every table and joins neighbouring texts only
BodyChunk(k) ==
    [content |-> <<2, k>>, page |-> 1, type |-> "table", parent |-> NoHeading,
     bboxes |-> 1]

FirstPage(n) == [k \in 1..n |-> BodyChunk(k)]

\* text of the last page whose first characters sort before the heading's
LeadText ==
    [content |-> <<0, 1>>, page |-> MaxPage, type |-> "text",
     parent |-> NoHeading, bboxes |-> 1]

LastPagePool == {c \in ChunkPool : c.page = MaxPage} \cup {LeadText}

\* A first page of as many chunks as a limit of ask, or one more than all of
\* them together, followed by the chunks of the last page.
Documents ==
    {FirstPage(n) \o tail :
        n \in {BaseTopK, IntroLimit, ContextBudget + 1},
        tail \in SeqsUpTo(LastPagePool, MaxTail)}

\* Two of the answers collection.query can give: the top_k matching chunks
\* are the ones stored first, or the ones stored last.
EdgeHits(st, filter, top_k) ==
    LET m == Matching(st, filter)
        n == Min(top_k, Cardinality(m))
    IN  {{i \in m : Cardinality({j \in m : j < i}) < n},
         {i \in m : Cardinality({j \in m : j > i}) < n}}

DocumentInit ==
    /\ store \in Documents
    /\ downPages = {} /\ epc = "idle" /\ anchors = <<>>
    /\ expanded = <<>> /\ expanded2 = <<>> /\ fetched = <<>> /\ context = <<>>
    /\ intent = "none" /\ answer = "none"

\* PDFReaderAgent.ask on a large document, the collection and the language
\* model answering every call
AskDocument ==
    /\ epc = "idle"
    /\ \E it \in Intents :
         \E bhits \in EdgeHits(store, AnyFilter, BaseTopK),
            hhits \in EdgeHits(store, HeadingFilter, HeadingK(it)) :
            Ask(it, bhits, hhits, TRUE, TRUE, TRUE, {})
    /\ epc' = "asked"
    /\ UNCHANGED <<store, expanded2>>
    /\ UNCHANGED <<searchVars, indexVars, cacheVars, loadVars, chatVars>>

DocumentNext == AskDocument

(***************************************************************************)
(* The retriever cache: pdf_reader_tool.py, get_or_create_retriever        *)
(***************************************************************************)
NumCallers == 2       \* threads calling get_or_create_retriever
MaxCalls == 2         \* calls each thread makes at most

Callers == 1..NumCallers
PdfPaths == {"a.pdf", "b.pdf"}

CacheIdle ==
    /\ cache = [p \in PdfPaths |-> 0]
    /\ cpc = [c \in Callers |-> "off"]
    /\ cpath = [c \in Callers |-> "a.pdf"]
    /\ ccalls = [c \in Callers |-> 0]
    /\ builds = [p \in PdfPaths |-> 0]
    /\ rebuilt = [p \in PdfPaths |-> FALSE]
    /\ mine = [c \in Callers |-> 0]
    /\ partial = {}

CacheInit ==
    /\ cache = [p \in PdfPaths |-> 0]
    /\ cpc = [c \in Callers |-> "idle"]
    /\ cpath = [c \in Callers |-> "a.pdf"]
    /\ ccalls = [c \in Callers |-> 0]
    /\ builds = [p \in PdfPaths |-> 0]
    /\ rebuilt = [p \in PdfPaths |-> FALSE]
    /\ mine = [c \in Callers |-> 0]
    /\ partial = {}

\* a thread enters get_or_create_retriever(pdf_path)
Call(c) ==
    /\ cpc[c] = "idle"
    /\ ccalls[c] < MaxCalls
    /\ \E p \in PdfPaths : cpath' = [cpath EXCEPT ![c] = p]
    /\ ccalls' = [ccalls EXCEPT ![c] = @ + 1]
    /\ cpc' = [cpc EXCEPT ![c] = "check"]
    /\ UNCHANGED <<cache, builds, rebuilt, mine, partial>>
    /\ UNCHANGED <<searchVars, indexVars, expandVars, loadVars, chatVars>>

\* lines 22-26: the membership test; a hit returns the cached system
CheckCache(c) ==
    /\ cpc[c] = "check"
    /\ cpc' = [cpc EXCEPT ![c] = IF cache[cpath[c]] # 0 THEN "idle" ELSE "ingest"]
    /\ UNCHANGED <<cache, cpath, ccalls, builds, rebuilt, mine, partial>>
    /\ UNCHANGED <<searchVars, indexVars, expandVars, loadVars, chatVars>>

\* line 29: ingestion_pipeline.process_pdf; an exception leaves the function
Ingest(c) ==
    /\ cpc[c] = "ingest"
    /\ \E ok \in BOOLEAN : cpc' = [cpc EXCEPT ![c] = IF ok THEN "index" ELSE "idle"]
    /\ UNCHANGED <<cache, cpath, ccalls, builds, rebuilt, mine, partial>>
    /\ UNCHANGED <<searchVars, indexVars, expandVars, loadVars, chatVars>>

\* What index_documents can do (FinishIndexing): raise, return with every
\* batch upserted, or return although a batch failed, its error text holding
\* "OK" (ContainsOK).
IndexOutcomes == {"complete", "incomplete", "raised"}

\* lines 33-35: a new ReferenceRetrievalSystem and index_documents; an
\* exception leaves the function
BuildIndex(c) ==
    /\ cpc[c] = "index"
    /\ \E outcome \in IndexOutcomes :
         LET p == cpath[c]
         IN  /\ cpc' = [cpc EXCEPT ![c] = IF outcome = "raised" THEN "idle" ELSE "store"]
             /\ builds' = IF outcome = "raised" THEN builds
                          ELSE [builds EXCEPT ![p] = @ + 1]
             /\ mine' = [mine EXCEPT ![c] = IF outcome = "raised" THEN 0
                                               ELSE builds[p] + 1]
             /\ partial' = IF outcome = "incomplete"
                           THEN partial \cup {<<p, builds[p] + 1>>} ELSE partial
    /\ UNCHANGED <<cache, cpath, ccalls, rebuilt>>
    /\ UNCHANGED <<searchVars, indexVars, expandVars, loadVars, chatVars>>

\* line 38: PDF_RETRIEVAL_CACHE[pdf_path] = retriever_system
StoreInCache(c) ==
    /\ cpc[c] = "store"
    /\ rebuilt' = [rebuilt EXCEPT ![cpath[c]] = @ \/ cache[cpath[c]] # 0]
    /\ cache' = [cache EXCEPT ![cpath[c]] = mine[c]]
    /\ mine' = [mine EXCEPT ![c] = 0]
    /\ cpc' = [cpc EXCEPT ![c] = "idle"]
    /\ UNCHANGED <<cpath, ccalls, builds, partial>>
    /\ UNCHANGED <<searchVars, indexVars, expandVars, loadVars, chatVars>>

CacheNext ==
    \E c \in Callers :
        Call(c) \/ CheckCache(c) \/ Ingest(c) \/ BuildIndex(c) \/ StoreInCache(c)

(***************************************************************************)
(* Loading a PDF: PDFReaderAgent.load_pdf, clear_collection                *)
(***************************************************************************)
MaxLoads == 3         \* load_pdf calls
MaxLoadBatches == 2   \* batches of a document at most

LoadIdle ==
    /\ lpc = "off" /\ coll = {} /\ handle = "live"
    /\ loads = 0 /\ lbatches = 0 /\ lresult = "none"

LoadInit ==
    /\ lpc = "idle" /\ coll = {} /\ handle = "live"
    /\ loads = 0 /\ lbatches = 0 /\ lresult = "none"

\* clear_collection (lines 57-67): delete_collection and _init_collection
\* inside one try whose except only logs. "kept": delete_collection raised;
\* "gone": the collection was deleted and could not be made again, and
\* self.collection still is the deleted one.
ClearOutcomes == {"cleared", "kept", "gone"}

\* load_pdf line 222: retriever.clear_collection(); on a stale handle
\* delete_collection finds no collection and raises
ClearCollection ==
    /\ lpc = "idle"
    /\ loads < MaxLoads
    /\ loads' = loads + 1
    /\ \E outcome \in ClearOutcomes :
         IF handle = "stale" \/ outcome = "kept"
         THEN UNCHANGED <<coll, handle>>
         ELSE /\ coll' = {}
              /\ handle' = IF outcome = "gone" THEN "stale" ELSE "live"
    /\ lpc' = "parse"
    /\ lresult' = "none"
    /\ UNCHANGED lbatches
    /\ UNCHANGED <<searchVars, indexVars, expandVars, cacheVars, chatVars>>

\* load_pdf lines 225-226 and 233-235: process_pdf, whose exception makes
\* load_pdf return False
ProcessPdf ==
    /\ lpc = "parse"
    /\ \/ \E n \in 0..MaxLoadBatches : lbatches' = n /\ lpc' = "index" /\ lresult' = lresult
       \/ lbatches' = 0 /\ lpc' = "idle" /\ lresult' = "false"
    /\ UNCHANGED <<coll, handle, loads>>
    /\ UNCHANGED <<searchVars, indexVars, expandVars, cacheVars, chatVars>>

\* What becomes of one batch inside index_documents: upserted; failed and
\* counted in failed_results; failed with "OK" in the returned text, which
\* line 125 takes for a success (ContainsOK).
BatchOutcomes == {"upserted", "failed", "failedOK"}

\* load_pdf lines 229-235: index_documents under uuid4 ids (an upsert never
\* replaces a stored chunk), which raises when failed_results is not empty
\* or when collection.count() raises in its last line; every call on a stale
\* handle raises.
IndexDocuments ==
    /\ lpc = "index"
    /\ \E out \in [1..lbatches -> BatchOutcomes], countOk \in BOOLEAN :
         LET done == IF handle = "stale" THEN {}
                     ELSE {b \in 1..lbatches : out[b] = "upserted"}
             failed == IF handle = "stale" THEN 1..lbatches
                       ELSE {b \in 1..lbatches : out[b] = "failed"}
         IN  /\ coll' = coll \cup {<<loads, b>> : b \in done}
             /\ lresult' = IF failed = {} /\ countOk /\ handle = "live"
                           THEN "true" ELSE "false"
    /\ lpc' = "idle"
    /\ UNCHANGED <<handle, loads, lbatches>>
    /\ UNCHANGED <<searchVars, indexVars, expandVars, cacheVars, chatVars>>

LoadNext == ClearCollection \/ ProcessPdf \/ IndexDocuments

(***************************************************************************)
(* Chat endpoints: router.py                                               *)
(***************************************************************************)
HistoryLimit == 20    \* if len(history) > 20: history = history[-20:]

NoUser == "<none>"    \* request.user_id is None or empty
UserIds == {NoUser, "u1"}
Messages == {"q"}
Answers == {"a"}

\* f"lib_{user_id}" with request.user_id or "anonymous"
LibKey(u) == <<"lib", IF u = NoUser THEN "anonymous" ELSE u>>
\* f"pdf_{user_id}" with request.user_id or "anonymous_pdf"
PdfKey(u) == <<"pdf", IF u = NoUser THEN "anonymous_pdf" ELSE u>>
HistoryKeys == {LibKey(u) : u \in UserIds} \cup {PdfKey(u) : u \in UserIds}

\* USER_CHAT_HISTORY = {}: get(history_key, []) answers [] for every key
ChatInit ==
    /\ USER_CHAT_HISTORY = [k \in HistoryKeys |-> <<>>]
    /\ passed = <<>>

\* history[-n:]
LastN(s, n) == IF Len(s) <= n THEN s ELSE SubSeq(s, Len(s) - n + 1, Len(s))

\* the history update both endpoints share (lines 133-138, 343-347)
UpdatedHistory(history, message, reply) ==
    LET kept == IF Len(history) > HistoryLimit THEN LastN(history, HistoryLimit)
                ELSE history
    IN  kept \o << <<"Human", message>>, <<"AI", reply>> >>

\* library_chat (lines 110-147); agent.ask raising ends in HTTP 500 with the
\* history untouched
LibraryChat ==
    \E u \in UserIds, m \in Messages, a \in Answers, askOk \in BOOLEAN :
        LET k == LibKey(u)
        IN  /\ passed' = USER_CHAT_HISTORY[k]
            /\ USER_CHAT_HISTORY' =
                  IF askOk
                  THEN [USER_CHAT_HISTORY EXCEPT ![k] = UpdatedHistory(@, m, a)]
                  ELSE USER_CHAT_HISTORY
            /\ UNCHANGED <<searchVars, indexVars, expandVars, cacheVars, loadVars>>

\* pdf_chat (lines 313-356); a request for a file that was not uploaded is
\* answered 404 before the history is read
PdfChat ==
    \E u \in UserIds, m \in Messages, a \in Answers, askOk \in BOOLEAN,
       fileExists \in BOOLEAN :
        LET k == PdfKey(u)
        IN  /\ passed' = IF fileExists THEN USER_CHAT_HISTORY[k] ELSE passed
            /\ USER_CHAT_HISTORY' =
                  IF fileExists /\ askOk
                  THEN [USER_CHAT_HISTORY EXCEPT ![k] = UpdatedHistory(@, m, a)]
                  ELSE USER_CHAT_HISTORY
            /\ UNCHANGED <<searchVars, indexVars, expandVars, cacheVars, loadVars>>

ChatNext == LibraryChat \/ PdfChat

(***************************************************************************)
(* Specifications                                                          *)
(***************************************************************************)
SearchNext == ParseQuery \/ SqlQuery \/ ChromaQuery \/ Fuse \/ Rerank \/ Hydrate

SearchSpecInit == SearchInit /\ IndexIdle /\ ExpandIdle /\ CacheIdle /\ LoadIdle /\ ChatInit

SearchSpec == SearchSpecInit /\ [][SearchNext]_vars

RerankNext == Rerank \/ Hydrate

RerankSpecInit == RerankInit /\ IndexIdle /\ ExpandIdle /\ CacheIdle /\ LoadIdle /\ ChatInit

RerankSpec == RerankSpecInit /\ [][RerankNext]_vars

IndexSpecInit == IndexInit /\ SearchIdle /\ ExpandIdle /\ CacheIdle /\ LoadIdle /\ ChatInit

IndexSpec == IndexSpecInit /\ [][IndexNext]_vars

\* Pool threads run, upsert and sleep return, the main thread is scheduled.
IndexFairSpec == IndexSpec /\ WF_vars(IndexNext)

ExpandSpecInit == ExpandInit /\ SearchIdle /\ IndexIdle /\ CacheIdle /\ LoadIdle /\ ChatInit

ExpandSpec == ExpandSpecInit /\ [][ExpandNext]_vars

DocumentSpecInit == DocumentInit /\ SearchIdle /\ IndexIdle /\ CacheIdle /\ LoadIdle /\ ChatInit

DocumentSpec == DocumentSpecInit /\ [][DocumentNext]_vars

CacheSpecInit == CacheInit /\ SearchIdle /\ IndexIdle /\ ExpandIdle /\ LoadIdle /\ ChatInit

CacheSpec == CacheSpecInit /\ [][CacheNext]_vars

LoadSpecInit == LoadInit /\ SearchIdle /\ IndexIdle /\ ExpandIdle /\ CacheIdle /\ ChatInit

LoadSpec == LoadSpecInit /\ [][LoadNext]_vars

ChatSpecInit == ChatInit /\ SearchIdle /\ IndexIdle /\ ExpandIdle /\ CacheIdle /\ LoadIdle

ChatSpec == ChatSpecInit /\ [][ChatNext]_vars

Init == SearchInit /\ IndexInit /\ ExpandInit /\ CacheInit /\ LoadInit /\ ChatInit

Next == SearchNext \/ IndexNext \/ ExpandNext \/ CacheNext \/ LoadNext \/ ChatNext

Spec == Init /\ [][Next]_vars

(***************************************************************************)
(* Properties                                                              *)
(***************************************************************************)
NoTwoSameContent(docs) ==
    \A i, j \in DOMAIN docs : i # j => docs[i].content # docs[j].content

ContentIn(c, docs) == \E j \in DOMAIN docs : docs[j].content = c

PositionIn(d, docs) == CHOOSE i \in DOMAIN docs : docs[i] = d

\* C1: the list UniqueEnsembleRetriever.invoke returns (the reranker's input)
\* holds no two documents whose ISBN, as a string stripped of whitespace, is
\* the same.
C1_UniqueIsbnToReranker ==
    \A i, j \in DOMAIN unique :
        i # j => Strip(unique[i].isbn) # Strip(unique[j].isbn)

\* The hard filter removed a document whose isbn differs from a kept one by
\* whitespace only.
C1_Witness ==
    /\ spc = "unique"
    /\ unique # <<>>
    /\ \E i, j \in DOMAIN fused :
         /\ i # j
         /\ fused[i].isbn # fused[j].isbn
         /\ Strip(fused[i].isbn) = Strip(fused[j].isbn)

\* C2: for every path the index build completes at most once, and an entry
\* of the cache is never stored over.
C2_AtMostOneBuild ==
    \A p \in PdfPaths : builds[p] <= 1 /\ ~rebuilt[p]

\* C3: when the semantic source raised and the lexical source returned 3
\* rows, the search ends with a non-empty result made of lexical documents.
C3_LexicalOnlyResult ==
    (spc = "done" /\ "chroma" \in slog /\ Len(lexical) = 3)
        => /\ soutcome = "found"
           /\ ranked # <<>>
           /\ Range(ranked) \subseteq Range(lexical)

\* C4: index_documents returns normally only if the upsert of every batch
\* succeeded.
C4_ReturnsOnlyIfAllSucceeded ==
    ipc = "returned" => \A i \in DOMAIN bstate : bstate[i].result.kind = "OK"

\* What process_batch's loop keeps true of every batch, with the numbers of
\* the default policy written out.
C5_BatchBounded ==
    \A i \in DOMAIN bstate :
        /\ bstate[i].attempts <= 4
        /\ Len(bstate[i].waits) <= 3
        /\ bstate[i].waits = SubSeq(<<15, 30, 60>>, 1, Len(bstate[i].waits))
        /\ bstate[i].retry > 3 => bstate[i].st = "done"
        /\ bstate[i].result.kind = "FAILED"
             => bstate[i].attempts = 4 /\ bstate[i].waits = <<15, 30, 60>>

\* C5: process_batch never makes more than max_retries + 1 upsert attempts;
\* its waits are 15, 30, 60 in this order; a batch rate-limited on every
\* attempt ends FAILED after exactly these three waits; and index_documents
\* always comes to an end.
C5_ProcessBatchTerminates ==
    [](C5_BatchBounded) /\ <>(ipc \in {"returned", "raised"})

\* A batch was rate-limited on every attempt and is permanently failed.
C5_Witness ==
    \E i \in DOMAIN bstate : bstate[i].result.kind = "FAILED"

\* C6: every anchor's content is present in the output of _expand_same_page.
C6_ExpansionKeepsAnchors ==
    epc \in {"searched", "again", "asked"}
        => \A i \in DOMAIN anchors : ContentIn(anchors[i].content, expanded)

\* C7: _expand_same_page applied to its own output returns that output.
C7_ExpansionIdempotent ==
    epc = "again" => expanded2 = expanded

\* The first application added chunks of the anchors' page to the anchors,
\* and the second application ran.
C7_Witness ==
    /\ epc = "again"
    /\ anchors # <<>>
    /\ Len(expanded) > Len(anchors)

\* C8: no two chunks with the same content in the output of
\* _expand_same_page, of fetch_by_metadata, or in the context ask assembles.
C8_NoDuplicateContent ==
    /\ NoTwoSameContent(expanded)
    /\ NoTwoSameContent(expanded2)
    /\ NoTwoSameContent(fetched)
    /\ NoTwoSameContent(context)

\* A section question over a collection that stores one content twice: the
\* expansion, the metadata fetch and STEP 3 all met the duplicate.
C8_Witness ==
    /\ epc = "asked" /\ intent = "section"
    /\ \E i, j \in DOMAIN store :
         i # j /\ store[i].content = store[j].content
                /\ ContentIn(store[i].content, context)
                /\ ContentIn(store[i].content, fetched)
                /\ ContentIn(store[i].content, expanded)

\* C9: when the scoring call fails, the search does not fail and the result
\* is the first 5 candidates in their input order.
C9_ScorerFailureFallsBack ==
    "scorer" \in slog => soutcome # "raised" /\ ranked = Take(unique, 5)

\* C10: after a scoring that did not fail, the reranker's output has at most
\* 5 elements, each one a candidate and none twice, scores never increase
\* along it, and equal scores keep the candidates' input order; an empty
\* candidate list gives an empty output without a call of the scorer.
C10_RerankerOutput ==
    /\ (spc \in {"ranked", "done"} /\ unique = <<>>)
          => ranked = <<>> /\ ~scores.called
    /\ (spc \in {"ranked", "done"} /\ scores.called /\ "scorer" \notin slog)
          => /\ Len(ranked) <= 5
             /\ \A i \in DOMAIN ranked : ranked[i] \in Range(unique)
             /\ \A i, j \in DOMAIN ranked :
                  i < j =>
                    /\ ranked[i] # ranked[j]
                    /\ scores.of[ranked[i].content] >= scores.of[ranked[j].content]
                    /\ scores.of[ranked[i].content] = scores.of[ranked[j].content]
                         => PositionIn(ranked[i], unique) < PositionIn(ranked[j], unique)

\* Six candidates scored, five returned, with a tie and a strict step.
C10_Witness ==
    /\ spc = "ranked" /\ scores.called
    /\ Len(unique) = 6 /\ Len(ranked) = 5
    /\ \E i, j \in DOMAIN ranked :
         i < j /\ scores.of[ranked[i].content] = scores.of[ranked[j].content]
    /\ \E i, j \in DOMAIN ranked :
         i < j /\ scores.of[ranked[i].content] > scores.of[ranked[j].content]

\* UniqueEnsembleRetriever.invoke has run for this query.
FuseRan == elog # <<>>

\* C11: when the SQL source and the Chroma source both fail, book_search_tool
\* ends with its not-found message and nothing is raised to the caller.
C11_AllSourcesFailNotFound ==
    (spc = "done" /\ "sql" \in slog /\ "chroma" \in slog) => soutcome = "notfound"

\* A Chroma document carries the text of its own catalog row or a text no
\* catalog row has, and no two Chroma documents of one answer carry the same
\* text.
OwnText(d) == \A isbn \in LexIsbns : d.content = LexContent(isbn) => Strip(d.isbn) = isbn

PlainSemantic ==
    /\ \A i \in DOMAIN semantic : OwnText(semantic[i])
    /\ \A i, j \in DOMAIN semantic : i # j => semantic[i].content # semantic[j].content

\* C13: with lexical = [X, Y] and semantic = [Y, Z], three different books and
\* Y the same ISBN in both lists, the fused list has exactly three entries,
\* one per book, and Y comes first.
C13_SharedBookFirst ==
    ( /\ FuseRan /\ PlainSemantic
      /\ Len(lexical) = 2 /\ Len(semantic) = 2
      /\ semantic[1].isbn = lexical[2].isbn
      /\ Strip(semantic[2].isbn) \notin {<<>>, lexical[1].isbn, lexical[2].isbn} )
    => /\ Len(unique) = 3
       /\ unique[1].isbn = lexical[2].isbn
       /\ {Strip(unique[i].isbn) : i \in DOMAIN unique}
            = {lexical[1].isbn, lexical[2].isbn, Strip(semantic[2].isbn)}

\* The rank a source gave to an ISBN: the position of its first document with
\* that ISBN, past the end of the list when it has none.
BestRank(k, docs) ==
    IF \E r \in DOMAIN docs : Strip(docs[r].isbn) = k
    THEN CHOOSE r \in DOMAIN docs :
            /\ Strip(docs[r].isbn) = k
            /\ \A q \in 1..(r - 1) : Strip(docs[q].isbn) # k
    ELSE Len(docs) + 1

\* The instance with the lowest rank in whichever source ranked the ISBN
\* highest, the lexical source on a tie.
Representative(k) ==
    IF BestRank(k, lexical) <= BestRank(k, semantic) /\ BestRank(k, lexical) <= Len(lexical)
    THEN lexical[BestRank(k, lexical)]
    ELSE semantic[BestRank(k, semantic)]

\* C14: when two or more fused candidates share an ISBN, the one kept is the
\* instance with the lowest rank in the source that ranked the ISBN highest,
\* the lexical source before the semantic one on a tie.
C14_RepresentativeKept ==
    (FuseRan /\ PlainSemantic)
    => \A u \in DOMAIN unique :
         (\E i, j \in DOMAIN fused :
             /\ i # j
             /\ Strip(fused[i].isbn) = Strip(unique[u].isbn)
             /\ Strip(fused[j].isbn) = Strip(unique[u].isbn))
         => unique[u].content = Representative(Strip(unique[u].isbn)).content

\* C14, amended: of the fused candidates that share an ISBN, the one kept is
\* the first in the fused order, and none of the others has a higher fused
\* score.
C14_FirstFusedKept ==
    FuseRan =>
      \A u \in DOMAIN unique : \A i \in DOMAIN fused :
         Strip(fused[i].isbn) = Strip(unique[u].isbn)
           => /\ PositionIn(unique[u], fused) <= i
              /\ RrfScore(unique[u].content, lexical, semantic)
                   >= RrfScore(fused[i].content, lexical, semantic)

\* Two fused candidates share an ISBN, and the one kept is not the instance
\* the source that ranked the ISBN highest put first.
C14_Witness ==
    /\ spc = "unique" /\ PlainSemantic
    /\ \E u \in DOMAIN unique :
         /\ \E i, j \in DOMAIN fused :
              /\ i # j
              /\ Strip(fused[i].isbn) = Strip(unique[u].isbn)
              /\ Strip(fused[j].isbn) = Strip(unique[u].isbn)
         /\ unique[u].content # Representative(Strip(unique[u].isbn)).content

\* C15: every fused candidate whose ISBN is missing, empty or blank is left
\* out of the output and a log line reports the drop; nothing is raised; and
\* every usable ISBN among the candidates is still in the output.
C15_BlankIsbnDroppedAndLogged ==
    FuseRan =>
      /\ \A i \in DOMAIN fused :
           Strip(fused[i].isbn) = <<>>
             => /\ fused[i] \notin Range(unique)
                /\ \E l \in DOMAIN elog : elog[l].msg = "Dropped"
      /\ \A i \in DOMAIN fused :
           Strip(fused[i].isbn) # <<>>
             => \E j \in DOMAIN unique : Strip(unique[j].isbn) = Strip(fused[i].isbn)
      /\ (spc = "unique" => soutcome = "none")

\* The pages the anchors of the last search are on.
AnchorPages == {anchors[i].page : i \in DOMAIN anchors}

StoredOn(P) == {i \in DOMAIN store : store[i].page \in P}

\* C16: when no per-page fetch fails, the expansion of a non-empty anchor list
\* returns, once per distinct content, the chunks stored on the anchors'
\* pages: every content stored on one of these pages is returned, and every
\* returned chunk is a stored chunk of one of these pages.
C16_ExactlyThePagesOfTheAnchors ==
    (epc \in {"searched", "again", "asked"} /\ anchors # <<>> /\ downPages = {})
    => /\ ContentsOf(expanded) = {store[i].content : i \in StoredOn(AnchorPages)}
       /\ \A e \in DOMAIN expanded :
            \E i \in StoredOn(AnchorPages) : store[i] = expanded[e]
       /\ NoTwoSameContent(expanded)

\* One anchor, two chunks stored: the chunk that is not the anchor was
\* returned with it, being on the anchor's page.
C16_Witness ==
    /\ epc = "searched" /\ downPages = {}
    /\ Len(anchors) = 1 /\ Len(store) = 2
    /\ Len(expanded) = 2
    /\ \E e \in DOMAIN expanded : expanded[e].content # anchors[1].content

\* The first place in the collection where a chunk with this content is
\* stored on this page.
StoredPos(c) ==
    CHOOSE i \in DOMAIN store :
        /\ store[i].content = c.content /\ store[i].page = c.page
        /\ \A j \in 1..(i - 1) :
             ~(store[j].content = c.content /\ store[j].page = c.page)

\* C17: the expansion's output is in ascending page order and, within a page,
\* in the order in which the chunks are stored.
C17_PageThenStoredOrder ==
    (epc \in {"searched", "again", "asked"} /\ downPages = {})
    => \A i, j \in DOMAIN expanded :
         i < j => /\ expanded[i].page <= expanded[j].page
                  /\ expanded[i].page = expanded[j].page
                       => StoredPos(expanded[i]) < StoredPos(expanded[j])

IndexEnded == ipc \in {"returned", "raised"}

\* C18: when index_documents returns or raises, the upsert of every batch
\* has been attempted at least once.
C18_EveryBatchAttempted ==
    IndexEnded => \A i \in DOMAIN bstate : bstate[i].attempts >= 1

\* C18, amended: when index_documents returns or raises, the worker of every
\* batch has run to its end, and every batch whose own worker did not raise
\* has had its upsert attempted at least once, whatever happened to the
\* other batches.
C18_NoBatchSkipped ==
    IndexEnded =>
      \A i \in DOMAIN bstate :
         /\ bstate[i].st = "done"
         /\ bstate[i].result.kind # "CRASH" => bstate[i].attempts >= 1

\* Three batches on two workers: the first worker raised, the second batch
\* ran out of retries, and the third batch, taken from the queue after one
\* of these failures, was upserted.
C18_Witness ==
    /\ ipc = "raised" /\ Len(bstate) = 3
    /\ bstate[1].result.kind = "CRASH"
    /\ bstate[2].result.kind = "FAILED"
    /\ bstate[3].result.kind = "OK" /\ bstate[3].attempts >= 1

\* Chunks of the batches 1..n whose upsert succeeded.
RECURSIVE ChunksUpserted(_)
ChunksUpserted(n) ==
    IF n = 0 THEN 0
    ELSE ChunksUpserted(n - 1)
         + (IF bstate[n].result.kind = "OK" THEN batches[n] ELSE 0)

\* C19: after index_documents on an empty collection, the collection's count
\* is the number of chunks of the batches whose upsert succeeded, each batch
\* counted once.
C19_CountOfSucceededBatches ==
    IndexEnded => count = ChunksUpserted(Len(bstate))

\* One batch permanently rate-limited, one that succeeded after a retry, one
\* that succeeded at once.
C19_Witness ==
    /\ ipc = "raised"
    /\ \E i, j, k \in DOMAIN bstate :
         /\ bstate[i].result.kind = "FAILED"
         /\ bstate[j].result.kind = "OK" /\ bstate[j].retry >= 1
         /\ bstate[k].result.kind = "OK" /\ bstate[k].retry = 0
    /\ count = 2

\* C20: when index_documents raises, the text of the exception names every
\* batch whose upsert did not succeed.
C20_FailureNamesEveryFailedBatch ==
    ipc = "raised" =>
      \A i \in DOMAIN bstate :
         bstate[i].result.kind # "OK"
           => \E f \in DOMAIN ErrorSummary(failed_results) :
                 ErrorSummary(failed_results)[f].batch = i

\* C25: when the SQL full text query fails, the lexical list is empty, the
\* failure is logged, the search goes on with the semantic documents only,
\* and whatever is raised later is not the SQL failure.
C25_SqlFailureGivesEmptyList ==
    "sql" \in slog =>
      /\ lexical = <<>>
      /\ spc # "start"
      /\ soutcome = "raised" => slog \cap {"chroma", "scorer"} # {}
      /\ FuseRan => Range(fused) \subseteq Range(semantic)

\* The SQL query failed and the search ended with books of the semantic
\* source.
C25_Witness ==
    /\ spc = "done" /\ "sql" \in slog
    /\ soutcome = "found" /\ ranked # <<>>

\* C27: the context assembled by ask begins with the base search result
\* (the whole context of intent general), for every intent; and the base
\* search is the unfiltered top-5 query whatever the intent.
C27_IntentOnlyAdds ==
    epc = "asked" =>
      /\ Len(expanded) <= Len(context)
      /\ SubSeq(context, 1, Len(expanded)) = expanded
      /\ intent = "general" => context = expanded
      /\ \/ anchors = <<>>
         \/ \E h \in QueryHits(store, AnyFilter, BaseTopK) :
               anchors = SelectSeq2(store, 1, h)

\* A summary or section question whose context holds the base result and
\* more.
C27_Witness ==
    /\ epc = "asked" /\ intent \in {"summary", "section"}
    /\ expanded # <<>>
    /\ Len(context) > Len(expanded)

\* C29: every returned book whose ISBN has a record in the catalog is
\* hydrated with that record, when the details query did not fail.
C29_CatalogBooksHydrated ==
    (spc = "done" /\ soutcome = "found" /\ "details" \notin slog)
    => \A i \in DOMAIN ranked :
         (\E c \in CatalogIsbns : SqlEquals(c, ranked[i].isbn)) => hydrated[i]

\* C24: each source returning at most top_k documents, the list the ensemble
\* hands to the cross encoder holds at most top_k documents (20 in the program,
\* here the larger of the two sources' limits).
C24_AtMostTopKScored ==
    FuseRan => Len(unique) <= MaxRank

\* C30: a failure of ingestion or indexing leaves the cache as it was, so the
\* cache only holds retrieval systems whose index_documents call went through
\* with no failed batch.
C30_CacheHoldsOnlyCompleteIndexes ==
    \A p \in PdfPaths : cache[p] # 0 => <<p, cache[p]>> \notin partial

\* C26: when load_pdf returned True, nothing of an earlier document is left
\* in the collection: it holds chunks of the document just loaded only, also
\* when clearing failed.
C26_OnlyTheLastDocument ==
    lresult = "true" => \A ch \in coll : ch[1] = loads

\* C28: a stored chat history never holds more than 10 turns (20 entries),
\* and neither does the history handed to the agent.
C28_HistoryAtMostTenTurns ==
    /\ \A k \in HistoryKeys : Len(USER_CHAT_HISTORY[k]) <= HistoryLimit
    /\ Len(passed) <= HistoryLimit

HasHeading == \E i \in DOMAIN store : store[i].type = "heading"

\* the chunks of the section of the heading, as fetch_by_metadata is asked
\* for them
SectionOf(h) ==
    Take(CollectionGet(store, [kind |-> "parent", heading |-> h]), SectionLimit)

\* C21: for intent section, when the collection holds a heading chunk for
\* the heading query to match, the context holds the heading and the (at most
\* 30) chunks whose parent heading is its text; when there is none, the
\* context is the base search result.
C21_SectionContext ==
    (epc = "asked" /\ intent = "section") =>
      /\ Len(fetched) <= SectionLimit
      /\ HasHeading =>
            /\ HeadingText \in ContentsOf(context)
            /\ ContentsOf(SectionOf(HeadingText)) \subseteq ContentsOf(context)
      /\ ~HasHeading => context = expanded

LastPageNo == GetMaxPage(store, TRUE)

\* C22: for intent summary on a document of more than one page, the context
\* holds the chunks of page 1 and the chunks of the last page, however many
\* they are.
C22_SummaryHoldsFirstAndLastPage ==
    (epc = "asked" /\ intent = "summary" /\ LastPageNo > 1) =>
      \A i \in DOMAIN store :
         store[i].page \in {1, LastPageNo} => store[i].content \in ContentsOf(context)

\* C23: the result of search with expand_same_page and the context of ask
\* stay within a fixed number of chunks, here the most the limits of ask add
\* up to.
C23_WithinBudget ==
    /\ Len(expanded) <= ContextBudget
    /\ Len(context) <= ContextBudget

=============================================================================
